---- MODULE Spec2Model ----
(***************************************************************************)
(* Model of dfim/util.py: the sequence encoder, the genome window loader,  *)
(* the synthetic-label decoder, the two interval padding mappers and the   *)
(* prediction correctness filter.                                          *)
(*                                                                         *)
(* Python strings are sequences of one-character strings, Python lists are *)
(* sequences (index i of the code is index i + 1 here), a dict is a        *)
(* function from its keys, a DataFrame is the sequence of its rows and a   *)
(* row is the tuple of its columns.  The float (seq_len - size) / 2. is    *)
(* kept as its numerator: ceil, floor and int() are taken of n / 2.        *)
(* Every function is an operator; a call is one action that draws the      *)
(* arguments and stores what the call returned or raised.                  *)
(***************************************************************************)
EXTENDS Integers, Sequences, FiniteSets, TLC

VARIABLES fn, args, ret

vars == <<fn, args, ret>>

(* ------------------------------ bounds -------------------------------- *)

MaxRows == 2

MaxStart == 1

MaxSize == 3

MaxSeqLen == 4

MaxFeatureRows == 2

MaxLabelRows == 1

MaxSimRows == 2

MaxEmb == 2

MaxLabels == 4

MaxTasks == 2

MaxPredRows == 2

MaxScore == 2

(* ------------------------- Python built-ins --------------------------- *)

Min(a, b) == IF a < b THEN a ELSE b

Max(a, b) == IF a > b THEN a ELSE b

\* s[start:end] of a Python str: a negative index counts from the end,
\* then both are clamped to 0..len(s).
PyIndex(i, L) == IF i < 0 THEN Max(i + L, 0) ELSE Min(i, L)

PySlice(s, start, end) ==
    LET lo == PyIndex(start, Len(s))
        hi == PyIndex(end, Len(s))
    IN  IF lo < hi THEN SubSeq(s, lo + 1, hi) ELSE <<>>

\* np.ceil(n / 2.), np.floor(n / 2.) and int(n / 2.) for an integer n
CeilHalf(n) == -((-n) \div 2)

FloorHalf(n) == n \div 2

TruncHalf(n) == IF n >= 0 THEN n \div 2 ELSE -((-n) \div 2)

DigitChars == <<"0", "1", "2", "3", "4", "5", "6", "7", "8", "9">>

\* '%s' % n for an integer n
RECURSIVE Digits(_)
Digits(n) ==
    IF n < 0 THEN <<"-">> \o Digits(-n)
    ELSE IF n < 10 THEN <<DigitChars[n + 1]>>
    ELSE Digits(n \div 10) \o <<DigitChars[(n % 10) + 1]>>

\* d[k] = v
Put(d, k, v) == [x \in (DOMAIN d) \cup {k} |-> IF x = k THEN v ELSE d[x]]

EmptyDict == [x \in {} |-> <<>>]

SeqsUpTo(S, n) == UNION {[1..k -> S] : k \in 0..n}

(* --------------------------- one_hot_encode --------------------------- *)

\* the column set for one character: 0 leaves the row all-zero, -1 raises
char_pos(char) ==
    IF char = "A" \/ char = "a" THEN 1
    ELSE IF char = "C" \/ char = "c" THEN 2
    ELSE IF char = "G" \/ char = "g" THEN 3
    ELSE IF char = "T" \/ char = "t" THEN 4
    ELSE IF char = "N" \/ char = "n" THEN 0
    ELSE -1

one_hot_row(char) == [c \in 1..4 |-> IF c = char_pos(char) THEN 1 ELSE 0]

one_hot_encode(sequence) ==
    IF \E pos \in 1..Len(sequence) : char_pos(sequence[pos]) = -1
    THEN [status |-> "RuntimeError", array |-> <<>>]
    ELSE [status |-> "ok",
          array |-> [pos \in 1..Len(sequence) |-> one_hot_row(sequence[pos])]]

(* ----------------------- load_sequences_from_bed ---------------------- *)

\* SeqIO.to_dict(SeqIO.parse(open(genome_file), 'fasta'))
records ==
    [chr1 |-> <<"A", "C", "G", "T", "N", "a">>,
     chr2 |-> <<"g", "T", "c">>]

\* the loop over bed.index: one substring per interval, in input order
short_seq_records(bed) ==
    [ind \in 1..Len(bed) |-> PySlice(records[bed[ind][1]], bed[ind][2], bed[ind][3])]

\* np.array of the encoded windows followed by astype('float32'): windows
\* of unequal length do not form a 3-d array and the conversion raises
load_sequences_from_bed(bed) ==
    IF \E ind \in 1..Len(bed) : bed[ind][1] \notin DOMAIN records
    THEN [status |-> "KeyError", sequences |-> <<>>]
    ELSE LET short == short_seq_records(bed)
             enc == [i \in 1..Len(short) |-> one_hot_encode(short[i])]
         IN  IF \E i \in 1..Len(enc) : enc[i].status /= "ok"
             THEN [status |-> "RuntimeError", sequences |-> <<>>]
             ELSE IF \E i, j \in 1..Len(short) : Len(short[i]) /= Len(short[j])
             THEN [status |-> "ValueError", sequences |-> <<>>]
             ELSE [status |-> "ok",
                   sequences |-> [i \in 1..Len(enc) |-> enc[i].array]]

(* ----------------- process_seqs_and_locations_from_bed ---------------- *)

\* <<pre_mut_flank, post_mut_flank>>
bed_flanks(seq_len, mut_size) ==
    IF mut_size % 2 /= 0
    THEN <<CeilHalf(seq_len - mut_size), FloorHalf(seq_len - mut_size)>>
    ELSE <<TruncHalf(seq_len - mut_size), TruncHalf(seq_len - mut_size)>>

bed_seq_coord(row, seq_len) ==
    LET fl == bed_flanks(seq_len, row[3] - row[2])
    IN  <<row[1], row[2] - fl[1], row[3] + fl[2]>>

flank_name(flank_size) == <<"f", "l", "a", "n", "k", "_">> \o Digits(flank_size)

seq_key(bed_ind) == <<"s", "e", "q", "_">> \o Digits(bed_ind)

coord_name(chrom, start, end) ==
    <<chrom, ":">> \o Digits(start) \o <<"-">> \o Digits(end)

bed_return_dict(row, bed_ind, seq_len, flank_size) ==
    LET start == row[2]
        end == row[3]
        mut_size == end - start
        pre_mut_flank == bed_flanks(seq_len, mut_size)[1]
    IN  [seq |-> bed_ind,
         mut_start |-> pre_mut_flank,
         mut_end |-> pre_mut_flank + mut_size,
         mut_name |-> coord_name(row[1], start, end),
         resp_start |-> <<pre_mut_flank - flank_size>>,
         resp_end |-> <<pre_mut_flank + mut_size + flank_size>>,
         resp_names |-> <<flank_name(flank_size)>>]

\* the loop over the rows of bed_df; bed_ind counts from 0
RECURSIVE bed_loc_dict(_, _, _, _)
bed_loc_dict(bed_df, n, seq_len, flank_size) ==
    IF n = 0 THEN EmptyDict
    ELSE Put(bed_loc_dict(bed_df, n - 1, seq_len, flank_size),
             seq_key(n - 1),
             bed_return_dict(bed_df[n], n - 1, seq_len, flank_size))

process_seqs_and_locations_from_bed(bed_df, seq_len, flank_size) ==
    LET seq_coords == [i \in 1..Len(bed_df) |-> bed_seq_coord(bed_df[i], seq_len)]
        loaded == load_sequences_from_bed(seq_coords)
    IN  [status |-> loaded.status,
         seq_coords |-> seq_coords,
         sequences |-> loaded.sequences,
         seqlet_loc_dict |->
            IF loaded.status = "ok"
            THEN bed_loc_dict(bed_df, Len(bed_df), seq_len, flank_size)
            ELSE EmptyDict]

(* ---------- process_seqs_and_locations_from_bed_and_labels ------------ *)

\* labels_bedtool.intersect(bed_bedtool, wa=True, wb=True): one row for
\* every label row and every bed row on the same chromosome that share at
\* least one base; the label row's columns come first, then the bed row's
overlaps(a, b) == a[1] = b[1] /\ a[2] < b[3] /\ b[2] < a[3]

RECURSIVE intersect_one(_, _, _)
intersect_one(a, bed_df, j) ==
    IF j > Len(bed_df) THEN <<>>
    ELSE (IF overlaps(a, bed_df[j]) THEN <<a \o bed_df[j]>> ELSE <<>>)
         \o intersect_one(a, bed_df, j + 1)

RECURSIVE intersect(_, _, _)
intersect(labels_df, bed_df, i) ==
    IF i > Len(labels_df) THEN <<>>
    ELSE intersect_one(labels_df[i], bed_df, 1) \o intersect(labels_df, bed_df, i + 1)

\* the header of the labels file
labels_columns == <<"chrom", "start", "end", "label">>

\* column positions in a joined row; iloc column c is tuple index c + 1
feature_start_col == Len(labels_columns) + 1

feature_end_col == Len(labels_columns) + 2

\* <<pre_mut_flank, post_mut_flank>>
labels_flanks(seq_len, peak_size) ==
    IF (peak_size % 2) /= 0
    THEN <<CeilHalf(seq_len - peak_size), FloorHalf(seq_len - peak_size)>>
    ELSE <<TruncHalf(seq_len - peak_size), TruncHalf(seq_len - peak_size)>>

labels_seq_coord(row, seq_len) ==
    LET fl == labels_flanks(seq_len, row[3] - row[2])
    IN  <<row[1], row[2] - fl[1], row[3] + fl[2]>>

\* a mapper that anchors the feature's end at the interval's end
labels_return_dict_end_anchor(row, bed_ind, seq_len, flank_size) ==
    LET start == row[2]
        end == row[3]
        mut_start == row[feature_start_col + 1]
        mut_end == row[feature_end_col + 1]
        fl == labels_flanks(seq_len, end - start)
        feature_start == mut_start - start + fl[1]
        feature_end == mut_end - end + fl[2]
    IN  [seq |-> bed_ind,
         mut_start |-> feature_start,
         mut_end |-> feature_end,
         mut_name |-> coord_name(row[1], start, end),
         resp_start |-> <<feature_start - flank_size>>,
         resp_end |-> <<feature_end + flank_size>>,
         resp_names |-> <<flank_name(flank_size)>>]

labels_return_dict(row, bed_ind, seq_len, flank_size) ==
    LET start == row[2]
        end == row[3]
        mut_start == row[feature_start_col + 1]
        mut_end == row[feature_end_col + 1]
        fl == labels_flanks(seq_len, end - start)
        feature_start == mut_start - start + fl[1]
        feature_end == mut_end - start + fl[2]
    IN  [seq |-> bed_ind,
         mut_start |-> feature_start,
         mut_end |-> feature_end,
         mut_name |-> coord_name(row[1], start, end),
         resp_start |-> <<feature_start - flank_size>>,
         resp_end |-> <<feature_end + flank_size>>,
         resp_names |-> <<flank_name(flank_size)>>]

\* the loop over the rows of intersect_df; bed_ind counts from 0
RECURSIVE labels_loc_dict(_, _, _, _)
labels_loc_dict(intersect_df, n, seq_len, flank_size) ==
    IF n = 0 THEN EmptyDict
    ELSE Put(labels_loc_dict(intersect_df, n - 1, seq_len, flank_size),
             seq_key(n - 1),
             labels_return_dict(intersect_df[n], n - 1, seq_len, flank_size))

process_seqs_and_locations_from_bed_and_labels(bed_df, labels_df, seq_len, flank_size) ==
    LET intersect_df == intersect(labels_df, bed_df, 1)
        seq_coords == [i \in 1..Len(intersect_df) |->
                          labels_seq_coord(intersect_df[i], seq_len)]
        loaded == load_sequences_from_bed(seq_coords)
    IN  [status |-> loaded.status,
         intersect_df |-> intersect_df,
         seq_coords |-> seq_coords,
         sequences |-> loaded.sequences,
         seqlet_loc_dict |->
            IF loaded.status = "ok"
            THEN labels_loc_dict(intersect_df, Len(intersect_df), seq_len, flank_size)
            ELSE EmptyDict]

(* ----------------------- get_correct_predictions ---------------------- *)

\* neg_threshold is <<>> for None and <<x>> for the value x

\* a filter that takes a score equal to pos_threshold for a correct positive
correct_at_ge(true_labels, predicted_labels, pos_threshold, neg_threshold, i) ==
    (IF true_labels[i + 1] = 1 /\ predicted_labels[i + 1] >= pos_threshold
     THEN <<i>> ELSE <<>>)
    \o (IF neg_threshold /= <<>>
           /\ true_labels[i + 1] = 0
           /\ predicted_labels[i + 1] < neg_threshold[1]
        THEN <<i>> ELSE <<>>)

\* the body of the loop: what iteration i appends to correct_predictions
correct_at(true_labels, predicted_labels, pos_threshold, neg_threshold, i) ==
    (IF true_labels[i + 1] = 1 /\ predicted_labels[i + 1] > pos_threshold
     THEN <<i>> ELSE <<>>)
    \o (IF neg_threshold /= <<>>
           /\ true_labels[i + 1] = 0
           /\ predicted_labels[i + 1] < neg_threshold[1]
        THEN <<i>> ELSE <<>>)

\* correct_predictions after i has run over 0 .. n - 1
RECURSIVE get_correct_predictions_upto(_, _, _, _, _)
get_correct_predictions_upto(true_labels, predicted_labels, pos_threshold, neg_threshold, n) ==
    IF n = 0 THEN <<>>
    ELSE get_correct_predictions_upto(true_labels, predicted_labels,
                                      pos_threshold, neg_threshold, n - 1)
         \o correct_at(true_labels, predicted_labels, pos_threshold, neg_threshold, n - 1)

get_correct_predictions(true_labels, predicted_labels, pos_threshold, neg_threshold) ==
    [status |-> "ok",
     correct_predictions |->
        get_correct_predictions_upto(true_labels, predicted_labels,
                                     pos_threshold, neg_threshold, Len(true_labels))]

(* ----------------- get_correct_predictions_from_model ----------------- *)

\* labels.ix[:, c].tolist() and predictions[:, task]: column c of a table,
\* c counted from 0
Column(table, c) == [r \in 1..Len(table) |-> table[r][c + 1]]

\* predictions is what model.predict(sequences) returned, one row per
\* sequence and n_tasks = predictions.shape[1] columns; the result maps
\* each task to the indices get_correct_predictions returns for it
get_correct_predictions_from_model(predictions, n_tasks, labels, pos_threshold, neg_threshold, label_key_column) ==
    IF \E r \in 1..Len(labels) : Len(labels[r]) < n_tasks + label_key_column + 1
    THEN [status |-> "IndexError", correct_pred_dict |-> EmptyDict]
    ELSE [status |-> "ok",
          correct_pred_dict |->
             [task \in 0..(n_tasks - 1) |->
                 get_correct_predictions(
                     Column(labels, task + label_key_column + 1),
                     Column(predictions, task),
                     pos_threshold, neg_threshold).correct_predictions]]

(* ------------------- process_locations_from_simdata ------------------- *)

HasChar(s, c) == \E i \in 1..Len(s) : s[i] = c

FirstIndex(s, c) == CHOOSE i \in 1..Len(s) : s[i] = c /\ \A j \in 1..(i - 1) : s[j] /= c

\* s.split(sep) for a one-character sep
RECURSIVE Split(_, _)
Split(s, sep) ==
    IF ~HasChar(s, sep) THEN <<s>>
    ELSE LET i == FirstIndex(s, sep)
         IN  <<SubSeq(s, 1, i - 1)>> \o Split(SubSeq(s, i + 1, Len(s)), sep)

\* s.split(sep, 1)
SplitOnce(s, sep) ==
    IF ~HasChar(s, sep) THEN <<s>>
    ELSE LET i == FirstIndex(s, sep)
         IN  <<SubSeq(s, 1, i - 1), SubSeq(s, i + 1, Len(s))>>

\* s.replace(pat, '')
RECURSIVE Remove(_, _)
Remove(s, pat) ==
    IF Len(s) < Len(pat) THEN s
    ELSE IF SubSeq(s, 1, Len(pat)) = pat THEN Remove(SubSeq(s, Len(pat) + 1, Len(s)), pat)
    ELSE <<s[1]>> \o Remove(Tail(s), pat)

IsDigit(c) == \E d \in 1..10 : DigitChars[d] = c

DigitValue(c) == (CHOOSE d \in 1..10 : DigitChars[d] = c) - 1

\* the six characters isspace() holds for a str: blank, tab, newline,
\* vertical tab, form feed and carriage return
Whitespace == {" ", "\t", "\n", "", "\f", "\r"}

\* s.strip()
RECURSIVE Strip(_)
Strip(s) ==
    IF s = <<>> THEN s
    ELSE IF s[1] \in Whitespace THEN Strip(Tail(s))
    ELSE IF s[Len(s)] \in Whitespace THEN Strip(SubSeq(s, 1, Len(s) - 1))
    ELSE s

\* s.lstrip()
RECURSIVE LStrip(_)
LStrip(s) ==
    IF s = <<>> THEN s
    ELSE IF s[1] \in Whitespace THEN LStrip(Tail(s))
    ELSE s

\* the decimal digits int(s) reads: whitespace is skipped around the whole
\* and once more between an optional sign and the digits
IntBody(s) ==
    LET t == Strip(s)
    IN  IF Len(t) > 0 /\ (t[1] = "-" \/ t[1] = "+") THEN LStrip(Tail(t)) ELSE t

\* int(s) does not raise ValueError
IsInt(s) ==
    Len(IntBody(s)) > 0 /\ \A i \in 1..Len(IntBody(s)) : IsDigit(IntBody(s)[i])

RECURSIVE NatOf(_)
NatOf(s) == IF s = <<>> THEN 0 ELSE 10 * NatOf(SubSeq(s, 1, Len(s) - 1)) + DigitValue(s[Len(s)])

IntOf(s) ==
    IF Strip(s)[1] = "-" THEN -NatOf(IntBody(s)) ELSE NatOf(IntBody(s))

Last(s) == s[Len(s)]

\* the parse of emb itself: what lines 106-109 raise, if anything
mut_status(emb) ==
    IF ~IsInt(Remove(SplitOnce(emb, "_")[1], <<"p", "o", "s", "-">>)) THEN "ValueError"
    ELSE IF Len(SplitOnce(emb, "_")) < 2 THEN "IndexError"
    ELSE IF Len(Split(SplitOnce(emb, "_")[2], "-")) < 2 THEN "IndexError"
    ELSE "ok"

\* what the element of resp_starts for a sibling e raises, if anything
resp_starts_status(e) ==
    IF Len(Split(e, "-")) < 2 THEN "IndexError"
    ELSE IF ~IsInt(Split(Split(e, "-")[2], "_")[1]) THEN "ValueError"
    ELSE "ok"

\* what the element of resp_names for a sibling e raises, if anything;
\* resp_starts has been built by then, so e has a second '-' field
resp_names_status(e) ==
    IF Len(Split(Split(e, "-")[2], "_")) < 2 THEN "IndexError" ELSE "ok"

pos_start(emb) == IntOf(Remove(SplitOnce(emb, "_")[1], <<"p", "o", "s", "-">>))

pos_end(emb) == pos_start(emb) + Len(Last(Split(emb, "-")))

motif(emb) == Split(SplitOnce(emb, "_")[2], "-")[1]

\* [e for e in embeddings if e != emb]
others(embeddings, emb) == SelectSeq(embeddings, LAMBDA e : e /= emb)

resp_starts(embeddings, emb) ==
    LET es == others(embeddings, emb)
    IN  [i \in 1..Len(es) |-> IntOf(Split(Split(es[i], "-")[2], "_")[1])]

resp_lengths(embeddings, emb) ==
    LET es == others(embeddings, emb)
    IN  [i \in 1..Len(es) |-> Len(Last(Split(es[i], "-")))]

resp_ends(embeddings, emb) ==
    LET starts == resp_starts(embeddings, emb)
        lengths == resp_lengths(embeddings, emb)
    IN  [i \in 1..Len(starts) |-> starts[i] + lengths[i]]

resp_names(embeddings, emb) ==
    LET es == others(embeddings, emb)
    IN  [i \in 1..Len(es) |-> Split(Split(es[i], "-")[2], "_")[2]]

return_key(seq_ind, emb) ==
    <<"s", "e", "q", "_">> \o Digits(seq_ind) \o <<"_", "e", "m", "b", "_">> \o emb

sim_return_dict(seq_ind, embeddings, emb) ==
    [seq |-> seq_ind,
     mut_start |-> pos_start(emb),
     mut_end |-> pos_end(emb),
     mut_name |-> Split(motif(emb), "_")[1],
     resp_start |-> resp_starts(embeddings, emb),
     resp_end |-> resp_ends(embeddings, emb),
     resp_names |-> resp_names(embeddings, emb)]

\* what the body of the loop over emb raises for one emb, if anything
emb_status(embeddings, emb) ==
    IF mut_status(emb) /= "ok" THEN mut_status(emb)
    ELSE LET es == others(embeddings, emb)
         IN  \* resp_starts is built over every sibling first (lines 111-112)
             IF \E i \in 1..Len(es) : resp_starts_status(es[i]) /= "ok"
             THEN resp_starts_status(es[CHOOSE i \in 1..Len(es) :
                      /\ resp_starts_status(es[i]) /= "ok"
                      /\ \A j \in 1..(i - 1) : resp_starts_status(es[j]) = "ok"])
             \* then resp_names over every sibling (lines 117-118)
             ELSE IF \E i \in 1..Len(es) : resp_names_status(es[i]) /= "ok"
             THEN "IndexError"
             ELSE "ok"

\* the loop over emb: the first k tokens of one row written into dict d
RECURSIVE sim_row(_, _, _, _)
sim_row(d, seq_ind, embeddings, k) ==
    IF k = 0 THEN d
    ELSE Put(sim_row(d, seq_ind, embeddings, k - 1),
             return_key(seq_ind, embeddings[k]),
             sim_return_dict(seq_ind, embeddings, embeddings[k]))

\* a row of simdata_df is [isnull, embeddings]; the loop over seq_ind
RECURSIVE sim_loc_dict(_, _)
sim_loc_dict(simdata_df, n) ==
    IF n = 0 THEN EmptyDict
    ELSE LET d == sim_loc_dict(simdata_df, n - 1)
             row == simdata_df[n]
             embeddings == Split(row.embeddings, ",")
         IN  IF row.isnull THEN d
             ELSE sim_row(d, n - 1, embeddings, Len(embeddings))

\* the first error raised over all rows and tokens, "ok" if none
sim_status(simdata_df) ==
    LET bad(n) ==
            /\ ~simdata_df[n].isnull
            /\ LET embeddings == Split(simdata_df[n].embeddings, ",")
               IN  \E k \in 1..Len(embeddings) :
                       emb_status(embeddings, embeddings[k]) /= "ok"
    IN  IF \E n \in 1..Len(simdata_df) : bad(n)
        THEN LET n == CHOOSE m \in 1..Len(simdata_df) :
                          bad(m) /\ \A j \in 1..(m - 1) : ~bad(j)
                 embeddings == Split(simdata_df[n].embeddings, ",")
                 k == CHOOSE c \in 1..Len(embeddings) :
                          /\ emb_status(embeddings, embeddings[c]) /= "ok"
                          /\ \A j \in 1..(c - 1) :
                                 emb_status(embeddings, embeddings[j]) = "ok"
             IN  emb_status(embeddings, embeddings[k])
        ELSE "ok"

\* n_sequences is sequences.shape[0]
process_locations_from_simdata(n_sequences, simdata_df) ==
    IF Len(simdata_df) /= n_sequences
    THEN [status |-> "AssertionError", seqlet_loc_dict |-> EmptyDict]
    ELSE IF sim_status(simdata_df) /= "ok"
    THEN [status |-> sim_status(simdata_df), seqlet_loc_dict |-> EmptyDict]
    ELSE [status |-> "ok", seqlet_loc_dict |-> sim_loc_dict(simdata_df, n_sequences)]

(* ------------------------------ inputs -------------------------------- *)

Chroms == {"chr1", "chr2"}

\* rows of a bed file: chrom, start, end with start < end
BedRows ==
    {<<c, s, s + m>> : c \in Chroms, s \in 0..MaxStart, m \in 1..MaxSize}

SeqLens == 2..MaxSeqLen

\* no flank and the default flank_size=15
FlankSizes == {0, 15}

\* intervals handed to the loader directly: starts below 0, ends past the
\* end of the chromosome and a chromosome the genome does not hold
LoadRows ==
    {<<c, s, s + m>> : c \in Chroms \cup {"chrM"}, s \in (-MaxSize)..MaxStart,
                       m \in 1..MaxSeqLen}

Alphabet == {"A", "c", "G", "t", "N", "Z"}

\* rows of the labels file and of the bed file joined against it
LabelRows == {<<"chr1", s, s + m, 1>> : s \in 0..MaxStart, m \in 1..MaxSize}

FeatureRows ==
    {<<"chr1", s, s + m>> : s \in 0..MaxStart, m \in 1..2} \cup {<<"chr2", 0, 1>>}

Scores == 0..MaxScore

\* the default of label_key_column
label_key_column_default == 3

\* rows of the labels table: chrom, start, end, name, then one label per task
LabelTableRows(n_tasks) ==
    {<<"chr1", 0, 1, "peak">> \o ls : ls \in [1..n_tasks -> {0, 1}]}

\* placement tokens pos-<start>_<motifname>-<label>
Tokens ==
    {<<"p", "o", "s", "-", "1", "_", "A", "-", "A", "C">>,
     <<"p", "o", "s", "-", "1", "2", "_", "B", "_", "k", "-", "G">>}

BadToken == <<"p", "o", "s", "-", "3">>

\* a token whose start is written with a blank before it
BlankToken == <<"p", "o", "s", "-", " ", "5", "_", "B", "-", "G", "T">>

\* a token whose start is written with a vertical tab before it
TabToken == <<"p", "o", "s", "-", "", "7", "_", "C", "-", "T">>

\* a token whose start is negative, with a blank after the sign
SignToken == <<"p", "o", "s", "-", "-", " ", "5", "_", "B", "-", "G", "T">>

\* ','.join(tokens)
RECURSIVE Join(_)
Join(tokens) ==
    IF Len(tokens) = 1 THEN tokens[1]
    ELSE tokens[1] \o <<",">> \o Join(Tail(tokens))

SimRows ==
    {[isnull |-> TRUE, embeddings |-> <<>>],
     [isnull |-> FALSE, embeddings |-> BadToken],
     [isnull |-> FALSE, embeddings |-> BlankToken],
     [isnull |-> FALSE, embeddings |-> TabToken],
     [isnull |-> FALSE, embeddings |-> SignToken]}
    \cup {[isnull |-> FALSE, embeddings |-> Join(<<t, BlankToken>>)] : t \in Tokens}
    \cup {[isnull |-> FALSE, embeddings |-> Join(ts)] :
             ts \in SeqsUpTo(Tokens, MaxEmb) \ {<<>>}}

(* ------------------------------ actions ------------------------------- *)

\* nothing has been called yet
Init ==
    /\ fn = "none"
    /\ args = [none |-> TRUE]
    /\ ret = [status |-> "none"]

Call_one_hot_encode ==
    /\ fn = "none"
    /\ \E sequence \in SeqsUpTo(Alphabet, MaxSize) :
          /\ fn' = "one_hot_encode"
          /\ args' = [sequence |-> sequence]
          /\ ret' = one_hot_encode(sequence)

Call_get_correct_predictions ==
    /\ fn = "none"
    /\ \E n \in 0..MaxLabels :
       \E true_labels \in [1..n -> {0, 1}], predicted_labels \in [1..n -> Scores],
          pos_threshold \in Scores, neg_threshold \in {<<>>} \cup {<<x>> : x \in Scores} :
          /\ fn' = "get_correct_predictions"
          /\ args' = [true_labels |-> true_labels,
                      predicted_labels |-> predicted_labels,
                      pos_threshold |-> pos_threshold,
                      neg_threshold |-> neg_threshold]
          /\ ret' = get_correct_predictions(true_labels, predicted_labels,
                                            pos_threshold, neg_threshold)

Call_get_correct_predictions_from_model ==
    /\ fn = "none"
    /\ \E n_tasks \in 1..MaxTasks, n \in 0..MaxPredRows :
       \E predictions \in [1..n -> [1..n_tasks -> Scores]],
          labels \in [1..n -> LabelTableRows(n_tasks)],
          pos_threshold \in Scores, neg_threshold \in {<<>>} \cup {<<x>> : x \in Scores} :
          /\ fn' = "get_correct_predictions_from_model"
          /\ args' = [predictions |-> predictions, n_tasks |-> n_tasks,
                      labels |-> labels, pos_threshold |-> pos_threshold,
                      neg_threshold |-> neg_threshold,
                      label_key_column |-> label_key_column_default]
          /\ ret' = get_correct_predictions_from_model(
                        predictions, n_tasks, labels, pos_threshold,
                        neg_threshold, label_key_column_default)

Call_process_locations_from_simdata ==
    /\ fn = "none"
    /\ \E simdata_df \in SeqsUpTo(SimRows, MaxSimRows) :
       \E n_sequences \in {Len(simdata_df), Len(simdata_df) + 1} :
          /\ fn' = "process_locations_from_simdata"
          /\ args' = [n_sequences |-> n_sequences, simdata_df |-> simdata_df]
          /\ ret' = process_locations_from_simdata(n_sequences, simdata_df)

Call_load_sequences_from_bed ==
    /\ fn = "none"
    /\ \E bed \in SeqsUpTo(LoadRows, MaxRows) :
          /\ fn' = "load_sequences_from_bed"
          /\ args' = [bed |-> bed]
          /\ ret' = load_sequences_from_bed(bed)

Call_process_seqs_and_locations_from_bed ==
    /\ fn = "none"
    /\ \E bed_df \in SeqsUpTo(BedRows, MaxRows), seq_len \in SeqLens,
          flank_size \in FlankSizes :
          /\ fn' = "process_seqs_and_locations_from_bed"
          /\ args' = [bed_df |-> bed_df, seq_len |-> seq_len,
                      flank_size |-> flank_size]
          /\ ret' = process_seqs_and_locations_from_bed(bed_df, seq_len, flank_size)

Call_process_seqs_and_locations_from_bed_and_labels ==
    /\ fn = "none"
    /\ \E bed_df \in SeqsUpTo(FeatureRows, MaxFeatureRows),
          labels_df \in SeqsUpTo(LabelRows, MaxLabelRows),
          seq_len \in SeqLens, flank_size \in FlankSizes :
          /\ fn' = "process_seqs_and_locations_from_bed_and_labels"
          /\ args' = [bed_df |-> bed_df, labels_df |-> labels_df,
                      seq_len |-> seq_len, flank_size |-> flank_size]
          /\ ret' = process_seqs_and_locations_from_bed_and_labels(
                        bed_df, labels_df, seq_len, flank_size)

Next ==
    \/ Call_one_hot_encode
    \/ Call_get_correct_predictions
    \/ Call_get_correct_predictions_from_model
    \/ Call_process_locations_from_simdata
    \/ Call_load_sequences_from_bed
    \/ Call_process_seqs_and_locations_from_bed
    \/ Call_process_seqs_and_locations_from_bed_and_labels

Spec == Init /\ [][Next]_vars

\* the three functions that return a mapping of location records
NextRecords ==
    \/ Call_process_locations_from_simdata
    \/ Call_process_seqs_and_locations_from_bed
    \/ Call_process_seqs_and_locations_from_bed_and_labels

SpecRecords == Init /\ [][NextRecords]_vars

NextFilter == Call_get_correct_predictions

SpecFilter == Init /\ [][NextFilter]_vars

(* ------------------------------ claims -------------------------------- *)

InBed == fn = "process_seqs_and_locations_from_bed"

InLabels == fn = "process_seqs_and_locations_from_bed_and_labels"

InSim == fn = "process_locations_from_simdata"

InLoad == fn = "load_sequences_from_bed"

InFilter == fn = "get_correct_predictions"

\* the flanks read back from the padded interval the call built for row i
PreOf(row, coord) == row[2] - coord[2]

PostOf(row, coord) == coord[3] - row[3]

\* ceil and floor of pad / 2 for pad >= 0, written without division
IsCeilHalf(x, pad) == 2 * x = pad \/ 2 * x = pad + 1

IsFloorHalf(x, pad) == 2 * x = pad \/ 2 * x = pad - 1

\* C1: in the flank-only mapper every interval of size m <= window_length
\* is padded to an interval of length exactly window_length
\* (pre + m + post = window_length), whatever the parities.
C1_PaddedLengthIsWindow ==
    InBed =>
        \A i \in 1..Len(args.bed_df) :
            LET row == args.bed_df[i]
                m == row[3] - row[2]
                coord == ret.seq_coords[i]
            IN  m <= args.seq_len =>
                    /\ PreOf(row, coord) + m + PostOf(row, coord) = args.seq_len
                    /\ coord[3] - coord[2] = args.seq_len

\* the split the claim C2 asks of one windowed interval
SplitIsCeilFloor(row, coord, seq_len) ==
    LET pad == seq_len - (row[3] - row[2])
    IN  pad >= 0 =>
            /\ IsCeilHalf(PreOf(row, coord), pad)
            /\ IsFloorHalf(PostOf(row, coord), pad)
            /\ PreOf(row, coord) + PostOf(row, coord) = pad

\* C2: in both mappers, for a pad >= 0, pre is the ceiling and post the
\* floor of pad / 2 (equal halves when the pad is even), for every
\* combination of parities of the window length and the interval size.
C2_PreCeilPostFloor ==
    /\ InBed =>
          \A i \in 1..Len(args.bed_df) :
              SplitIsCeilFloor(args.bed_df[i], ret.seq_coords[i], args.seq_len)
    /\ InLabels =>
          \A i \in 1..Len(ret.intersect_df) :
              SplitIsCeilFloor(ret.intersect_df[i], ret.seq_coords[i], args.seq_len)

\* the number of placement tokens in the row of 0-based index seq_ind
TokenCount(seq_ind) == Len(Split(args.simdata_df[seq_ind + 1].embeddings, ","))

\* C3: every record the decoder returns has response lists of length
\* k - 1, k the number of placement tokens of its row, also when two
\* tokens of the row are the same string.
C3_ResponseListsHaveKMinusOne ==
    (InSim /\ ret.status = "ok") =>
        \A key \in DOMAIN ret.seqlet_loc_dict :
            LET rec == ret.seqlet_loc_dict[key]
                k == TokenCount(rec.seq)
            IN  /\ Len(rec.resp_start) = k - 1
                /\ Len(rec.resp_end) = k - 1
                /\ Len(rec.resp_names) = k - 1

\* C4: in the flank-only mapper an interval larger than the window makes
\* the call fail: nothing is returned and no flank is negative.
C4_WindowTooSmallIsFatal ==
    (InBed /\ \E i \in 1..Len(args.bed_df) :
                 args.bed_df[i][3] - args.bed_df[i][2] > args.seq_len) =>
        /\ ret.status /= "ok"
        /\ ret.sequences = <<>>
        /\ ret.seqlet_loc_dict = EmptyDict

\* the characters of s at the positions of [start, end) that lie in [0, len(s))
Clipped(s, start, end) ==
    LET lo == Max(start, 0)
        hi == Min(end, Len(s))
    IN  IF lo < hi THEN [j \in 1..(hi - lo) |-> s[lo + j]] ELSE <<>>

\* C5: the loader never fails on coordinates out of bounds: window i is
\* the encoding of genome[chrom] over [start, end) cut to the chromosome,
\* in input order.
C5_LoaderTruncates ==
    (InLoad /\ \A i \in 1..Len(args.bed) : args.bed[i][1] \in DOMAIN records) =>
        /\ ret.status = "ok"
        /\ Len(ret.sequences) = Len(args.bed)
        /\ \A i \in 1..Len(args.bed) :
              LET want == Clipped(records[args.bed[i][1]], args.bed[i][2], args.bed[i][3])
              IN  ret.sequences[i] = [j \in 1..Len(want) |-> one_hot_row(want[j])]

\* C6: for every row with k placement tokens the returned mapping holds
\* exactly k records whose seq is that row's index.
C6_OneRecordPerToken ==
    (InSim /\ ret.status = "ok") =>
        \A n \in 1..Len(args.simdata_df) :
            ~args.simdata_df[n].isnull =>
                Cardinality({key \in DOMAIN ret.seqlet_loc_dict :
                                ret.seqlet_loc_dict[key].seq = n - 1})
                    = TokenCount(n - 1)

RecordWellFormed(rec) ==
    /\ Len(rec.resp_start) = Len(rec.resp_end)
    /\ Len(rec.resp_end) = Len(rec.resp_names)
    /\ rec.mut_start <= rec.mut_end
    /\ \A i \in 1..Len(rec.resp_start) : rec.resp_start[i] <= rec.resp_end[i]

\* C7: every record of the three paths has response lists of one length,
\* mut_start <= mut_end and resp_start[i] <= resp_end[i]; a record of the
\* two bed-derived paths has exactly one response region.
C7_RecordsWellFormed ==
    (InSim \/ InBed \/ InLabels) =>
        \A key \in DOMAIN ret.seqlet_loc_dict :
            /\ RecordWellFormed(ret.seqlet_loc_dict[key])
            /\ (InBed \/ InLabels) => Len(ret.seqlet_loc_dict[key].resp_start) = 1

\* C7 witness: the label-overlap mapper returned a record whose feature
\* region has shrunk to mut_start = mut_end under an odd pad.
C7_Witness ==
    /\ InLabels
    /\ ret.status = "ok"
    /\ \E key \in DOMAIN ret.seqlet_loc_dict :
          /\ ret.seqlet_loc_dict[key].mut_start = ret.seqlet_loc_dict[key].mut_end
          /\ ret.seqlet_loc_dict[key].resp_start[1] < ret.seqlet_loc_dict[key].resp_end[1]

\* the indices the filter is to return
Correct(i) ==
    \/ /\ args.true_labels[i + 1] = 1
       /\ args.predicted_labels[i + 1] > args.pos_threshold
    \/ /\ args.neg_threshold /= <<>>
       /\ args.true_labels[i + 1] = 0
       /\ args.predicted_labels[i + 1] < args.neg_threshold[1]

\* C8: get_correct_predictions returns, strictly ascending, exactly the
\* indices of the positives scored above pos_threshold and, when
\* neg_threshold is given, of the negatives scored below it.
C8_FilterExact ==
    InFilter =>
        /\ \A j, k \in 1..Len(ret.correct_predictions) : j < k => ret.correct_predictions[j] < ret.correct_predictions[k]
        /\ {ret.correct_predictions[j] : j \in 1..Len(ret.correct_predictions)}
              = {i \in 0..(Len(args.true_labels) - 1) : Correct(i)}

\* C8 witness: a call with neg_threshold that returned a positive and a
\* negative and left out a positive scored exactly pos_threshold and a
\* negative scored exactly neg_threshold.
C8_Witness ==
    /\ InFilter
    /\ args.neg_threshold /= <<>>
    /\ \E j \in 1..Len(ret.correct_predictions) :
          args.true_labels[ret.correct_predictions[j] + 1] = 1
    /\ \E j \in 1..Len(ret.correct_predictions) :
          args.true_labels[ret.correct_predictions[j] + 1] = 0
    /\ \E i \in 1..Len(args.true_labels) :
          /\ args.true_labels[i] = 1
          /\ args.predicted_labels[i] = args.pos_threshold
          /\ \A j \in 1..Len(ret.correct_predictions) :
                ret.correct_predictions[j] /= i - 1
    /\ \E i \in 1..Len(args.true_labels) :
          /\ args.true_labels[i] = 0
          /\ args.predicted_labels[i] = args.neg_threshold[1]
          /\ \A j \in 1..Len(ret.correct_predictions) :
                ret.correct_predictions[j] /= i - 1

\* C9: in the label-overlap mapper the feature region keeps its length
\* and both of its ends are the feature's absolute coordinates minus the
\* padded window's start.
C9_FeatureShiftedByWindowStart ==
    (InLabels /\ ret.status = "ok") =>
        \A i \in 1..Len(ret.intersect_df) :
            LET row == ret.intersect_df[i]
                rec == ret.seqlet_loc_dict[seq_key(i - 1)]
                feature_start == row[feature_start_col + 1]
                feature_end == row[feature_end_col + 1]
                window_start == ret.seq_coords[i][2]
            IN  /\ rec.mut_end - rec.mut_start = feature_end - feature_start
                /\ rec.mut_start = feature_start - window_start
                /\ rec.mut_end = feature_end - window_start

\* C10: rows [mut_start, mut_end) of window i of the flank-only mapper
\* encode genome[chrom][start:end), for every interval no larger than the
\* window that lies inside its chromosome.
C10_WindowAlignedWithFeature ==
    (InBed /\ ret.status = "ok") =>
        \A i \in 1..Len(args.bed_df) :
            LET row == args.bed_df[i]
                m == row[3] - row[2]
                rec == ret.seqlet_loc_dict[seq_key(i - 1)]
                window == ret.sequences[i]
            IN  (m <= args.seq_len /\ row[3] <= Len(records[row[1]])) =>
                    /\ rec.mut_end - rec.mut_start = m
                    /\ \A j \in 0..(m - 1) :
                          /\ rec.mut_start + j + 1 \in DOMAIN window
                          /\ window[rec.mut_start + j + 1]
                                = one_hot_row(records[row[1]][row[2] + j + 1])

====
